---- MODULE Spec2Model ----
(***************************************************************************)
(* Model of lib/gui/app/models/leds.ts: the registry of RGB LEDs keyed by  *)
(* drive path, updateLeds (classification of the drive paths and the       *)
(* step-based indications), the store observer registered by init, and    *)
(* the blink animations.                                                   *)
(*                                                                         *)
(* Arrays that the code turns into a Set on entry (availableDrives,        *)
(* selectedDrives, failedDrives of updateLeds) are modelled as sets.       *)
(* Intensities are rationals <<numerator, denominator>> in lowest terms.   *)
(***************************************************************************)
EXTENDS Integers, Sequences, FiniteSets

VARIABLES
    ledsMapping,              \* settings.get('ledsMapping') || {}: its keys
    leds,                     \* keys of the leds Map
    ind,                      \* per path: the last driver call its RGBLed received
    calls,                    \* per path: driver calls made by the last updateLeds
    called,                   \* updateLeds ran at least once
    step, sourceDrivePath, availableDrives, selectedDrives, failedDrives,
                              \* arguments of the last updateLeds call
    unplugged, plugged, selectedOk, selectedFailed,
                              \* the four sets as logged at line 114
    sourceSlot,               \* paths given the source indication (lines 105-113)
    isFlashing, flashing, lastAverageFlashingSpeed,
    storeDrives, selectionDevices, flashErrors,
                              \* the store snapshot seen by the observer
    t, greenSample, purpleSample
                              \* elapsed ms and the animations sampled at it

updateVars == <<ind, calls, called, step, sourceDrivePath, availableDrives,
                selectedDrives, failedDrives, unplugged, plugged, selectedOk,
                selectedFailed, sourceSlot>>
storeVars == <<isFlashing, flashing, lastAverageFlashingSpeed, storeDrives,
               selectionDevices, flashErrors>>
animVars == <<t, greenSample, purpleSample>>
vars == <<ledsMapping, leds, updateVars, storeVars, animVars>>

---------------------------------------------------------------------------
(* Bounds of the model.                                                    *)
MaxT == 4200
MaxFlashing == 1
MaxSpeed == 0

(* Program constants.                                                      *)
BlinkHalfPeriod == 1000
BlinkPhases == 2

---------------------------------------------------------------------------
(* Colours and animations, lines 41-60.                                    *)

RECURSIVE Gcd(_, _)
Gcd(a, b) == IF b = 0 THEN a ELSE Gcd(b, a % b)

\* A number n/d in lowest terms (d > 0, n >= 0).
Rat(n, d) == LET g == Gcd(n, d) IN <<n \div g, d \div g>>

Zero == Rat(0, 1)
One == Rat(1, 1)

red == <<One, Zero, Zero>>
green == <<Zero, One, Zero>>
blue == <<Zero, Zero, One>>
white == <<One, One, One>>
black == <<Zero, Zero, Zero>>

\* Faulty variant: toggles every 500 ms.
BlinkIntensityFast(time) == (time \div (BlinkHalfPeriod \div 2)) % BlinkPhases

\* Math.floor(t / 1000) % 2, for an integer t >= 0.
BlinkIntensity(time) == (time \div BlinkHalfPeriod) % BlinkPhases

blinkGreen(time) ==
    LET intensity == BlinkIntensity(time)
    IN  <<Zero, Rat(intensity, 1), Zero>>

blinkPurple(time) ==
    LET intensity == BlinkIntensity(time)
    IN  <<Rat(intensity, 2), Zero, Rat(intensity, 1)>>

\* breatheBlue, lines 47-50, is carried by name only: its values are not
\* rational.

---------------------------------------------------------------------------
(* Drive paths.                                                            *)

PathPrefix == "/dev/disk/by-path/"
MappingKeys == {"A", "B", "C"}
LedPath(drivePath) == PathPrefix \o drivePath
DrivePaths == {LedPath(k) : k \in MappingKeys}
Undefined == "undefined"
Steps == {"main", "flashing", "verifying", "finish"}

\* An absent value (null or undefined) of an optional snapshot field is the
\* empty sequence, a present value v is <<v>>.
Null == <<>>
Some(v) == <<v>>

---------------------------------------------------------------------------
(* The driver: what an RGBLed was last told.                               *)

NoCall == [call |-> "none", color |-> black, animation |-> "none"]
StaticColor(c) == [call |-> "setStaticColor", color |-> c, animation |-> "none"]
Animation(a) == [call |-> "setAnimation", color |-> black, animation |-> a]

\* Array.isArray(colorOrAnimation), line 32: a Color is an array.
IsArray(colorOrAnimation) == colorOrAnimation.call = "setStaticColor"

\* The driver state threaded through one updateLeds: ind and calls.
Driver(i, c) == [ind |-> i, calls |-> c]

\* Faulty variant: no check that the path has an RGBLed.
SetLedsUnguarded(registry, d, drivesPaths, colorOrAnimation) ==
    Driver([p \in DrivePaths |->
               IF p \in drivesPaths THEN colorOrAnimation ELSE d.ind[p]],
           [p \in DrivePaths |->
               IF p \in drivesPaths THEN d.calls[p] + 1 ELSE d.calls[p]])

\* setLeds, lines 25-39: every path of drivesPaths that has an RGBLed gets
\* one driver call.
setLeds(registry, d, drivesPaths, colorOrAnimation) ==
    Driver([p \in DrivePaths |->
               IF p \in drivesPaths /\ p \in registry
               THEN IF IsArray(colorOrAnimation)
                    THEN StaticColor(colorOrAnimation.color)
                    ELSE Animation(colorOrAnimation.animation)
               ELSE d.ind[p]],
           [p \in DrivePaths |->
               IF p \in drivesPaths /\ p \in registry
               THEN d.calls[p] + 1
               ELSE d.calls[p]])

---------------------------------------------------------------------------
(* updateLeds, lines 77-137.                                               *)

\* Lines 85, 89-92: plugged = availableDrives minus selectedDrives.
PluggedSet(available, selected) == available \ selected

\* Lines 84, 94-97: unplugged = keys of leds minus plugged.
UnpluggedSet(registry, pluggedSet) == registry \ pluggedSet

\* Faulty variant: the failed drives are not removed.
SelectedOkKeepsFailed(selected, failed) == selected

\* Lines 86, 99-102: selectedOk = selectedDrives minus failedDrives.
SelectedOkSet(selected, failed) == selected \ failed

\* Lines 104-113: the sets after the source slot is handled, the paths
\* that took the source indication, and the driver after it.
SourceSlot(registry, d, source, un, pl) ==
    IF source # Undefined /\ source \in un
    THEN [unplugged |-> un \ {source}, plugged |-> pl, slot |-> {source},
          driver |-> setLeds(registry, d, {source}, Animation("breatheBlue"))]
    ELSE IF source # Undefined /\ source \in pl
    THEN [unplugged |-> un, plugged |-> pl \ {source}, slot |-> {source},
          driver |-> setLeds(registry, d, {source}, StaticColor(blue))]
    ELSE [unplugged |-> un, plugged |-> pl, slot |-> {}, driver |-> d]

\* Lines 116-136: the third and fourth setLeds of each step.
SelectedOkIndication(st) ==
    CASE st = "main" -> StaticColor(white)
      [] st = "flashing" -> Animation("blinkGreen")
      [] st = "verifying" -> Animation("blinkPurple")
      [] st = "finish" -> StaticColor(green)

SelectedFailedIndication(st) ==
    IF st = "main" THEN StaticColor(white) ELSE StaticColor(red)

\* Faulty variant: the two black setLeds come last.
ApplyStepBlackLast(registry, d, st, un, pl, ok, failed) ==
    LET d1 == setLeds(registry, d, ok, SelectedOkIndication(st))
        d2 == setLeds(registry, d1, failed, SelectedFailedIndication(st))
        d3 == setLeds(registry, d2, un, StaticColor(black))
    IN  setLeds(registry, d3, pl, StaticColor(black))

\* Faulty variant: the unplugged LEDs are not repainted.
ApplyStepSkipsUnplugged(registry, d, st, un, pl, ok, failed) ==
    LET d2 == setLeds(registry, d, pl, StaticColor(black))
        d3 == setLeds(registry, d2, ok, SelectedOkIndication(st))
    IN  setLeds(registry, d3, failed, SelectedFailedIndication(st))

\* Lines 116-136: four setLeds in order, the same two first in every step.
ApplyStep(registry, d, st, un, pl, ok, failed) ==
    LET d1 == setLeds(registry, d, un, StaticColor(black))
        d2 == setLeds(registry, d1, pl, StaticColor(black))
        d3 == setLeds(registry, d2, ok, SelectedOkIndication(st))
    IN  setLeds(registry, d3, failed, SelectedFailedIndication(st))

\* The whole of updateLeds on the LEDs as they were (prev): the sets at
\* line 114 and the driver when it returns.
AfterSource(registry, st, ok, failed, src) ==
    [unplugged |-> src.unplugged, plugged |-> src.plugged,
     selectedOk |-> ok, selectedFailed |-> failed,
     sourceSlot |-> src.slot,
     driver |-> ApplyStep(registry, src.driver, st, src.unplugged,
                          src.plugged, ok, failed)]

updateLedsResult(registry, prev, st, source, available, selected, failed) ==
    LET pl == PluggedSet(available, selected)
    IN  AfterSource(registry, st, SelectedOkSet(selected, failed), failed,
           SourceSlot(registry, Driver(prev, [p \in DrivePaths |-> 0]),
                      source, UnpluggedSet(registry, pl), pl))

updateLeds(st, source, available, selected, failed) ==
    \E r \in {updateLedsResult(leds, ind, st, source, available, selected,
                                failed)} :
        /\ called' = TRUE
        /\ step' = st
        /\ sourceDrivePath' = source
        /\ availableDrives' = available
        /\ selectedDrives' = selected
        /\ failedDrives' = failed
        /\ unplugged' = r.unplugged
        /\ plugged' = r.plugged
        /\ selectedOk' = r.selectedOk
        /\ selectedFailed' = r.selectedFailed
        /\ sourceSlot' = r.sourceSlot
        /\ ind' = r.driver.ind
        /\ calls' = r.driver.calls
        /\ UNCHANGED <<ledsMapping, leds>>

---------------------------------------------------------------------------
(* State after init() has built the registry, lines 154-158, and before    *)
(* any update.                                                             *)

LedsOf(mapping) == {LedPath(k) : k \in mapping}

\* The configurations tried: one registry of each size (the code treats
\* every path alike, so which keys are mapped does not matter).
Mappings == {{}, {"A"}, {"A", "B"}, {"A", "B", "C"}}

InitRegistry ==
    /\ ledsMapping \in Mappings
    /\ leds = LedsOf(ledsMapping)
    /\ ind = [p \in DrivePaths |-> NoCall]
    /\ calls = [p \in DrivePaths |-> 0]
    /\ called = FALSE
    /\ step = "main"
    /\ sourceDrivePath = Undefined
    /\ availableDrives = {}
    /\ selectedDrives = {}
    /\ failedDrives = {}
    /\ unplugged = {}
    /\ plugged = {}
    /\ selectedOk = {}
    /\ selectedFailed = {}
    /\ sourceSlot = {}

InitStore ==
    /\ isFlashing = FALSE
    /\ flashing = 0
    /\ lastAverageFlashingSpeed = Null
    /\ storeDrives = <<>>
    /\ selectionDevices = {}
    /\ flashErrors = Null

InitAnim ==
    /\ t = 0
    /\ greenSample = blinkGreen(0)
    /\ purpleSample = blinkPurple(0)

Init == InitRegistry /\ InitStore /\ InitAnim

---------------------------------------------------------------------------
(* Direct calls of the exported updateLeds.  The first call takes any      *)
(* arguments; a later call takes the previous call's arguments with one    *)
(* of them replaced by any value (or by the same value: the same call      *)
(* again), so every argument tuple follows every registry state.           *)

SourceArgs == DrivePaths \cup {Undefined}

FirstCall ==
    /\ ~called
    /\ \E st \in Steps, source \in SourceArgs,
          available \in SUBSET DrivePaths, selected \in SUBSET DrivePaths,
          failed \in SUBSET DrivePaths :
            updateLeds(st, source, available, selected, failed)
    /\ UNCHANGED <<storeVars, animVars>>

CallWithStep ==
    /\ called
    /\ \E st \in Steps :
            updateLeds(st, sourceDrivePath, availableDrives, selectedDrives,
                       failedDrives)
    /\ UNCHANGED <<storeVars, animVars>>

CallWithSource ==
    /\ called
    /\ \E source \in SourceArgs :
            updateLeds(step, source, availableDrives, selectedDrives,
                       failedDrives)
    /\ UNCHANGED <<storeVars, animVars>>

CallWithAvailable ==
    /\ called
    /\ \E available \in SUBSET DrivePaths :
            updateLeds(step, sourceDrivePath, available, selectedDrives,
                       failedDrives)
    /\ UNCHANGED <<storeVars, animVars>>

CallWithSelected ==
    /\ called
    /\ \E selected \in SUBSET DrivePaths :
            updateLeds(step, sourceDrivePath, availableDrives, selected,
                       failedDrives)
    /\ UNCHANGED <<storeVars, animVars>>

CallWithFailed ==
    /\ called
    /\ \E failed \in SUBSET DrivePaths :
            updateLeds(step, sourceDrivePath, availableDrives, selectedDrives,
                       failed)
    /\ UNCHANGED <<storeVars, animVars>>

Next ==
    \/ FirstCall
    \/ CallWithStep
    \/ CallWithSource
    \/ CallWithAvailable
    \/ CallWithSelected
    \/ CallWithFailed

Spec == Init /\ [][Next]_vars

---------------------------------------------------------------------------
(* The observer registered by init, lines 159-195.                         *)

Devices == {"/dev/sda", "/dev/sdb"}
DriveRecords ==
    [device : Devices, devicePath : DrivePaths \cup {Undefined},
     isSource : BOOLEAN]

\* isSourceDrive of shared/drive-constraints, as the flag the device carries.
isSourceDrive(d) == d.isSource

\* Faulty variant: a speed of 0 counts as absent.
StepOfFalsySpeed(flag, progress, speed) ==
    IF flag
    THEN IF progress > 0 THEN "flashing" ELSE "verifying"
    ELSE IF speed = Null \/ speed = Some(0) THEN "main" ELSE "finish"

\* Lines 162-166.
StepOf(flag, progress, speed) ==
    IF flag
    THEN IF progress > 0 THEN "flashing" ELSE "verifying"
    ELSE IF speed = Null THEN "main" ELSE "finish"

\* Lines 168-170: the drives that have a devicePath.
HasDevicePath(d) == d.devicePath # Undefined
AvailableOf(drives) == SelectSeq(drives, HasDevicePath)

\* Lines 171-172: availableDrives.filter(isSourceDrive)[0]?.devicePath.
SourcePathOf(available) ==
    LET sources == SelectSeq(available, isSourceDrive)
    IN  IF sources = <<>> THEN Undefined ELSE sources[1].devicePath

\* Lines 173-175.
PathsOf(available) == {available[i].devicePath : i \in 1..Len(available)}

\* Faulty variant: looks the devices up in the unfiltered list.
GetDrivesPathsOfAny(storeList, available, drives) ==
    {storeList[i].devicePath :
        i \in {j \in 1..Len(storeList) : storeList[j].device \in drives}}

\* getDrivesPaths, lines 176-180 (a closure over availableDrives).
getDrivesPaths(storeList, available, drives) ==
    {available[i].devicePath :
        i \in {j \in 1..Len(available) : available[j].device \in drives}}

\* Lines 183-186: the failed devices, [] when a field of the chain is absent.
FailedDevicesOf(errors) == IF errors = Null THEN {} ELSE errors[1]

\* The callback on one snapshot: lines 160-194, updateLeds included.
Observer(flag, progress, speed, drives, selection, errors) ==
    /\ isFlashing' = flag
    /\ flashing' = progress
    /\ lastAverageFlashingSpeed' = speed
    /\ storeDrives' = drives
    /\ selectionDevices' = selection
    /\ flashErrors' = errors
    /\ \E available \in {AvailableOf(drives)} :
          updateLeds(StepOf(flag, progress, speed),
                     SourcePathOf(available),
                     PathsOf(available),
                     getDrivesPaths(drives, available, selection),
                     getDrivesPaths(drives, available,
                                    FailedDevicesOf(errors)))
    /\ UNCHANGED animVars

\* The store changes one field of its state and notifies the observer.  A
\* device is listed at most once.
DevicesIn(drives) == {drives[i].device : i \in 1..Len(drives)}

StoreFlashing ==
    \E flag \in BOOLEAN, progress \in 0..MaxFlashing :
        /\ flag # isFlashing \/ progress # flashing
        /\ Observer(flag, progress, lastAverageFlashingSpeed, storeDrives,
                    selectionDevices, flashErrors)

StoreSpeed ==
    \E speed \in {Null} \cup {Some(v) : v \in 0..MaxSpeed} :
        /\ speed # lastAverageFlashingSpeed
        /\ Observer(isFlashing, flashing, speed, storeDrives,
                    selectionDevices, flashErrors)

StoreAddDrive ==
    \E d \in DriveRecords :
        /\ d.device \notin DevicesIn(storeDrives)
        /\ Observer(isFlashing, flashing, lastAverageFlashingSpeed,
                    Append(storeDrives, d), selectionDevices, flashErrors)

StoreRemoveDrive ==
    \E i \in 1..Len(storeDrives) :
        Observer(isFlashing, flashing, lastAverageFlashingSpeed,
                 SubSeq(storeDrives, 1, i - 1)
                     \o SubSeq(storeDrives, i + 1, Len(storeDrives)),
                 selectionDevices, flashErrors)

StoreSelection ==
    \E selection \in SUBSET Devices :
        /\ selection # selectionDevices
        /\ Observer(isFlashing, flashing, lastAverageFlashingSpeed,
                    storeDrives, selection, flashErrors)

StoreResults ==
    \E errors \in {Null} \cup {Some(e) : e \in SUBSET Devices} :
        /\ errors # flashErrors
        /\ Observer(isFlashing, flashing, lastAverageFlashingSpeed,
                    storeDrives, selectionDevices, errors)

NextObserver ==
    \/ StoreFlashing
    \/ StoreSpeed
    \/ StoreAddDrive
    \/ StoreRemoveDrive
    \/ StoreSelection
    \/ StoreResults

SpecObserver == Init /\ [][NextObserver]_vars

---------------------------------------------------------------------------
(* The driver sampling the blink animations at an elapsed time.            *)

SampleIntervals == {1, 16, BlinkHalfPeriod}

Sample ==
    \E dt \in SampleIntervals :
        /\ t + dt <= MaxT
        /\ t' = t + dt
        /\ greenSample' = blinkGreen(t + dt)
        /\ purpleSample' = blinkPurple(t + dt)
        /\ UNCHANGED <<ledsMapping, leds, updateVars, storeVars>>

NextAnim == Sample

SpecAnim == Init /\ [][NextAnim]_vars

---------------------------------------------------------------------------
(* Properties of updateLeds (specification Spec).                          *)

\* The categories a path belongs to at line 114.
CategoriesOf(p) ==
    {c \in {"source", "unplugged", "plugged", "selectedOk", "selectedFailed"} :
        \/ c = "source" /\ p \in sourceSlot
        \/ c = "unplugged" /\ p \in unplugged
        \/ c = "plugged" /\ p \in plugged
        \/ c = "selectedOk" /\ p \in selectedOk
        \/ c = "selectedFailed" /\ p \in selectedFailed}

\* C1: after the set arithmetic and the source-slot handling every
\* registered path is in exactly one of source, unplugged, plugged,
\* selectedOk, selectedFailed.
C1_ExactlyOneCategory ==
    called => \A p \in leds : Cardinality(CategoriesOf(p)) = 1

\* The table of the spec, by precedence failed > selected > others.
TableEntry(st, p) ==
    IF p \in failedDrives
    THEN IF st = "main"
         THEN [call |-> "setStaticColor", color |-> white, animation |-> "none"]
         ELSE [call |-> "setStaticColor", color |-> red, animation |-> "none"]
    ELSE IF p \in selectedDrives
    THEN CASE st = "main" ->
                [call |-> "setStaticColor", color |-> white, animation |-> "none"]
           [] st = "flashing" ->
                [call |-> "setAnimation", color |-> black, animation |-> "blinkGreen"]
           [] st = "verifying" ->
                [call |-> "setAnimation", color |-> black, animation |-> "blinkPurple"]
           [] st = "finish" ->
                [call |-> "setStaticColor", color |-> green, animation |-> "none"]
    ELSE [call |-> "setStaticColor", color |-> black, animation |-> "none"]

\* C2: when updateLeds has returned, every registered path other than the
\* source path holds the table entry of the step and of its category, with
\* precedence failed > selected > plugged > unplugged.
C2_TableApplied ==
    called => \A p \in leds \ {sourceDrivePath} : ind[p] = TableEntry(step, p)

\* C2's case: a failed, a selected and an unselected registered path, none
\* of them the source, in a blinking step.
C2_Witness ==
    /\ called
    /\ step = "verifying"
    /\ \E p, q, r \in leds \ {sourceDrivePath} :
          /\ p \in failedDrives /\ p \in selectedDrives
          /\ q \in selectedDrives \ failedDrives
          /\ r \in availableDrives \ (selectedDrives \cup failedDrives)
          /\ ind[p].color = red
          /\ ind[q].animation = "blinkPurple"
          /\ ind[r].color = black /\ ind[r].call = "setStaticColor"

\* C3: a registered source path ends with the source indication in every
\* step: breathing blue when it is not in availableDrives, solid blue when
\* it is, whatever selectedDrives and failedDrives hold.
C3_SourceIndicationKept ==
    (called /\ sourceDrivePath # Undefined /\ sourceDrivePath \in leds)
        => ind[sourceDrivePath] =
              IF sourceDrivePath \in availableDrives
              THEN [call |-> "setStaticColor", color |-> blue,
                    animation |-> "none"]
              ELSE [call |-> "setAnimation", color |-> black,
                    animation |-> "breatheBlue"]

\* C4: when sourceDrivePath is defined it is in none of unplugged, plugged,
\* selectedOk, selectedFailed where the step-based indications are applied.
C4_SourceInNoSet ==
    (called /\ sourceDrivePath # Undefined)
        => sourceDrivePath \notin
              (unplugged \cup plugged \cup selectedOk \cup selectedFailed)

\* C5: a path in both selectedDrives and failedDrives is in selectedFailed
\* and not in selectedOk, and when it is registered and the step is flashing,
\* verifying or finish its LED is left solid red.
C5_FailedOverridesSelected ==
    called =>
        \A p \in selectedDrives \cap failedDrives :
            /\ p \in selectedFailed
            /\ p \notin selectedOk
            /\ (p \in leds /\ step # "main")
                  => /\ ind[p].call = "setStaticColor"
                     /\ ind[p].color = <<<<1, 1>>, <<0, 1>>, <<0, 1>>>>

\* C5's case (scenario 4): a registered path selected and failed while
\* flashing, left red.
C5_Witness ==
    /\ called
    /\ step = "flashing"
    /\ \E p \in leds \cap selectedDrives \cap failedDrives :
          /\ ind[p].call = "setStaticColor"
          /\ ind[p].color = red
          /\ p \in selectedFailed

\* LED states an earlier update may have left behind.
EarlierLeds ==
    {[p \in DrivePaths |-> NoCall],
     [p \in DrivePaths |-> StaticColor(white)],
     [p \in DrivePaths |-> Animation("blinkGreen")]}

\* C6: every update calls the driver at least once for every registered
\* LED, and the indications it leaves are those the same call leaves on any
\* other earlier LED state: a function of the last call's arguments only.
C6_Stateless ==
    called =>
        /\ \A p \in leds : calls[p] >= 1
        /\ \A earlier \in EarlierLeds :
              \A p \in leds :
                 updateLedsResult(leds, earlier, step, sourceDrivePath,
                                  availableDrives, selectedDrives,
                                  failedDrives).driver.ind[p] = ind[p]

\* C6's case: an update that left an animation on one LED and black on an
\* unplugged one, each by a driver call of this update.
C6_Witness ==
    /\ called
    /\ \E p, q \in leds :
          /\ ind[p].call = "setAnimation"
          /\ q \in unplugged /\ ind[q] = StaticColor(black)
          /\ calls[p] = 2 /\ calls[q] = 1

\* The arguments of the last call with the unregistered paths left out.
RegisteredOnly(paths) == paths \cap leds
RegisteredSource ==
    IF sourceDrivePath \in leds THEN sourceDrivePath ELSE Undefined

\* C8: an unregistered path in the arguments causes no driver call, leaves
\* every registered LED as the call without it leaves it, and the key set
\* of leds stays the one init built.
C8_UnregisteredIgnored ==
    /\ leds = LedsOf(ledsMapping)
    /\ called =>
          /\ \A p \in DrivePaths \ leds : calls[p] = 0 /\ ind[p] = NoCall
          /\ \A p \in leds :
                updateLedsResult(leds, [q \in DrivePaths |-> NoCall], step,
                                 RegisteredSource,
                                 RegisteredOnly(availableDrives),
                                 RegisteredOnly(selectedDrives),
                                 RegisteredOnly(failedDrives)).driver.ind[p]
                    = ind[p]

\* C8's case: an unregistered source that is available, another
\* unregistered path selected and failed, beside a registered LED.
C8_Witness ==
    /\ called
    /\ leds # {}
    /\ sourceDrivePath # Undefined
    /\ sourceDrivePath \notin leds
    /\ sourceDrivePath \in availableDrives
    /\ \E q \in DrivePaths \ leds :
          q # sourceDrivePath /\ q \in selectedDrives \cap failedDrives

---------------------------------------------------------------------------
(* Properties of the observer (specification SpecObserver).                *)

\* C7: the observer derives flashing when the flag is set and the progress
\* is > 0, verifying when the flag is set and the progress is 0, finish when
\* the flag is not set and the speed marker is present, main otherwise.
C7_StepDerived ==
    called =>
        /\ (isFlashing /\ flashing > 0) => step = "flashing"
        /\ (isFlashing /\ flashing = 0) => step = "verifying"
        /\ (~isFlashing /\ Len(lastAverageFlashingSpeed) = 1)
              => step = "finish"
        /\ (~isFlashing /\ Len(lastAverageFlashingSpeed) = 0)
              => step = "main"

\* C7's case: not flashing, with a last average speed of 0 recorded.
C7_Witness ==
    /\ called
    /\ ~isFlashing
    /\ lastAverageFlashingSpeed = <<0>>
    /\ step = "finish"

\* The devicePaths of the listed devices that have one.
ResolvedPaths ==
    {storeDrives[i].devicePath :
        i \in {j \in 1..Len(storeDrives) :
                  storeDrives[j].devicePath # Undefined}}

ResolvedPathsOf(devices) ==
    {storeDrives[i].devicePath :
        i \in {j \in 1..Len(storeDrives) :
                  /\ storeDrives[j].devicePath # Undefined
                  /\ storeDrives[j].device \in devices}}

\* C9: every path the observer passes to updateLeds is the resolved
\* devicePath of an available device; selected and failed paths are subsets
\* of the available paths and a defined source path is one of them.
C9_OnlyResolvedPaths ==
    called =>
        /\ availableDrives = ResolvedPaths
        /\ selectedDrives = ResolvedPathsOf(selectionDevices)
        /\ failedDrives =
              ResolvedPathsOf(IF flashErrors = <<>> THEN {} ELSE flashErrors[1])
        /\ selectedDrives \subseteq availableDrives
        /\ failedDrives \subseteq availableDrives
        /\ sourceDrivePath # Undefined => sourceDrivePath \in availableDrives
        /\ Undefined \notin
              (availableDrives \cup selectedDrives \cup failedDrives)

\* C9's case: a device without a devicePath that is selected and failed,
\* listed before a source device that has one.
C9_Witness ==
    /\ called
    /\ Len(storeDrives) = 2
    /\ storeDrives[1].devicePath = Undefined
    /\ storeDrives[1].isSource
    /\ storeDrives[1].device \in selectionDevices
    /\ flashErrors # <<>>
    /\ storeDrives[1].device \in flashErrors[1]
    /\ storeDrives[2].devicePath # Undefined
    /\ storeDrives[2].isSource
    /\ sourceDrivePath = storeDrives[2].devicePath
    /\ selectedDrives = {}

---------------------------------------------------------------------------
(* Properties of the blink animations (specification SpecAnim).            *)

\* C10: with b = floor(t/1000) mod 2, blinkGreen(t) = (0, b, 0) and
\* blinkPurple(t) = (b/2, 0, b): off in [0,1000), on in [1000,2000), period
\* 2000 ms, every component within [0,1].
C10_BlinkValues ==
    LET on == (t % 2000) >= 1000
    IN  /\ greenSample =
              IF on THEN <<<<0, 1>>, <<1, 1>>, <<0, 1>>>>
                    ELSE <<<<0, 1>>, <<0, 1>>, <<0, 1>>>>
        /\ purpleSample =
              IF on THEN <<<<1, 2>>, <<0, 1>>, <<1, 1>>>>
                    ELSE <<<<0, 1>>, <<0, 1>>, <<0, 1>>>>
        /\ \A i \in 1..3 :
              /\ 0 <= greenSample[i][1] /\ greenSample[i][1] <= greenSample[i][2]
              /\ 0 <= purpleSample[i][1]
              /\ purpleSample[i][1] <= purpleSample[i][2]
        /\ t >= 2000 =>
              /\ greenSample = blinkGreen(t - 2000)
              /\ purpleSample = blinkPurple(t - 2000)

\* C10's case: the samples at 1500 ms, in the second period-half.
C10_Witness ==
    /\ t = 1500
    /\ greenSample = <<<<0, 1>>, <<1, 1>>, <<0, 1>>>>
    /\ purpleSample = <<<<1, 2>>, <<0, 1>>, <<1, 1>>>>

====
